---- MODULE Spec2Model ----
(***************************************************************************)
(* A model of two utilities of @aconitum/utils:                            *)
(*                                                                         *)
(*   - signals-exit (packages/utils/src/signals-exit.ts): the exit emitter,*)
(*     load / unload, onExit and the signal listeners, together with the   *)
(*     part of the Node process they touch (signal listeners, emit,        *)
(*     reallyExit, exitCode, kill).                                        *)
(*   - onetime (packages/utils/src/onetime.ts and its second copy,         *)
(*     unnamed/part_014): the wrapper, its call counter and callCount.     *)
(*                                                                         *)
(* The process is a Node process (processOk holds) in which no legacy      *)
(* signal-exit v3 emitter (__signal_exit_emitter__) is installed.  Exit    *)
(* handlers are callbacks whose only effect on the module is their return  *)
(* value, which is chosen freely at every invocation.                      *)
(***************************************************************************)
EXTENDS Integers, Sequences, FiniteSets, TLC

\* ------------------------------------------------------------------ bounds
\* Calls of onExit.
MaxReg == 2
\* Calls of load() that find the module unloaded.
MaxLoads == 2
\* Listeners of other modules attached to a signal; they are attached to one
\* signal at a time (a signal listener reads the listeners of its own signal).
MaxOther == 1

\* Calls of one onetime wrapper.
MaxCalls == 3
\* The finite numbers and BigInts given to inRange are -1..MaxNum.
MaxNum == 2
\* Length of the strings given to parseUrl and parsePath.
MaxLen == 5
\* A value parseUrl.MAX_INPUT_LENGTH is lowered to.
LoweredLimit == 3
\* Length of the text given to wrap.
MaxText == 3
\* options.width is 1..MaxWidth.
MaxWidth == 2
\* Iterations of wrap's while loop followed in one call.
MaxIter == 5

\* -------------------------------------------------------------- value model
Handlers == {"h1", "h2"}
Events == {"exit", "afterExit"}

Num(n) == [t |-> "number", v |-> n]
Null == [t |-> "null", v |-> 0]
Undefined == [t |-> "undefined", v |-> 0]
\* The numeric exit codes tried: the falsy one and a truthy one.
Codes == {Num(0), Num(1)}

\* process.platform: the platform with the longest signals list and the one
\* with the shortest.
Platforms == {"linux", "win32"}

\* The three groups of the signals list, each by some of its members: SIGHUP
\* (which hupSig replaces on win32) and one more signal of every platform, one
\* signal of the non-Windows group and one of the Linux group.
BaseSignals == {"SIGHUP", "SIGINT"}
UnixSignals == {"SIGQUIT"}
LinuxSignals == {"SIGPWR"}
AllSignals == BaseSignals \cup UnixSignals \cup LinuxSignals

VARIABLES
    platform,        \* process.platform
    loaded,          \* let loaded
    emitted,         \* emitter.emitted
    listeners,       \* emitter.listeners
    count,           \* emitter.count
    sigListeners,    \* keys of the module's sigListeners map
    procListeners,   \* signals on which the process holds this module's listener
    others,          \* per signal, listeners of other modules on the process
    procEmit,        \* process.emit: "original" or "wrapped"
    procReallyExit,  \* process.reallyExit: "original" or "wrapped"
    exitCode,        \* process.exitCode
    alive,           \* the process has not terminated
    calls,           \* history: the handler invocations of the last operation, in order
    issued,          \* the unregister closures onExit has returned
    registered,      \* history: per (event, callback), registrations not yet removed
    runs,            \* history: per event, the emits that ran the listeners
    pristine,        \* history: only onExit, unregister and environment steps so far
    nOnExit,         \* history: the calls of onExit
    handled,         \* history: a handler returned true on a signal exit
    op               \* history: the last operation

exitVars ==
    <<platform, loaded, emitted, listeners, count, sigListeners, procListeners,
      others, procEmit, procReallyExit, exitCode, alive, calls, issued,
      registered, runs, pristine, nOnExit, handled, op>>

VARIABLES
    impl,            \* the copy of onetime in use: "onetime.ts" or "part_014"
    wrapped,         \* the wrappers onetime has returned
    optThrow,        \* per wrapper, options.throw === true
    callCount,       \* per wrapper, let callCount
    returnValue,     \* per wrapper, let returnValue
    funcFreed,       \* per wrapper, the original function was set to undefined
    calledFunctions, \* the WeakMap calledFunctions, on the functions it holds
    stack,           \* the wrappers whose original function is running, innermost last
    invoked,         \* history: per wrapper, the invocations of the original function
    log,             \* history: per wrapper, its completed calls, in order of completion
    lastCount        \* history: the last onetime.callCount(f) and its outcome

otVars ==
    <<impl, wrapped, optThrow, callCount, returnValue, funcFreed, calledFunctions,
      stack, invoked, log, lastCount>>

VARIABLES
    rNumber,         \* inRange: the argument number
    rStart,          \* inRange: options.start as passed (Undefined when omitted)
    rEnd,            \* inRange: options.end as passed (Undefined when omitted)
    rResult,         \* inRange(number, { start, end }): "none" before the call
    rSwapped         \* inRange(number, { start: end, end: start })

rangeVars == <<rNumber, rStart, rEnd, rResult, rSwapped>>

VARIABLES
    url,             \* parseUrl / parsePath: the argument
    maxInputLength,  \* parseUrl.MAX_INPUT_LENGTH
    urlResult,       \* the outcome of parseUrl(url)
    pathResult       \* the outcome of parsePath(url)

urlVars == <<url, maxInputLength, urlResult, pathResult>>

VARIABLES
    text,            \* wrap: the argument text
    width,           \* wrap: options.width
    indent,          \* wrap: options.indent
    hardWrap,        \* wrap: options.hardWrap
    lines,           \* wrap: the lines of text not yet taken by the for loop
    remainingLine,   \* wrap: let remainingLine
    ansiCodes,       \* wrap: const ansiCodes, of the line in work
    result,          \* wrap: const result
    wrapPc,          \* wrap: "start", "line" (for loop), "loop" (while loop), "done"
    iterations       \* history: iterations of the while loop made by the call

wrapVars ==
    <<text, width, indent, hardWrap, lines, remainingLine, ansiCodes, result,
      wrapPc, iterations>>

\* The state of the pure helpers.
fnVars == <<rangeVars, urlVars, wrapVars>>

vars == <<exitVars, otVars, fnVars>>

\* ------------------------------------------------------------ signals-exit
\* const signals, built from process.platform.
signals ==
    BaseSignals
        \cup (IF platform # "win32" THEN UnixSignals ELSE {})
        \cup (IF platform = "linux" THEN LinuxSignals ELSE {})

\* const hupSig
hupSig == IF platform = "win32" THEN "SIGINT" ELSE "SIGHUP"

\* processOk(process): a Node process has every method that test asks for.
processOk == TRUE

\* Array.prototype.indexOf, 1-based; 0 stands for -1.
IndexOf(list, h) ==
    IF \E i \in 1..Len(list) : list[i] = h
    THEN CHOOSE i \in 1..Len(list) :
            list[i] = h /\ \A j \in 1..(i - 1) : list[j] # h
    ELSE 0

\* list.splice(i, 1)
Splice1(list, i) == SubSeq(list, 1, i - 1) \o SubSeq(list, i + 1, Len(list))

RemoveNothing(list, h) == list

\* emitter.removeListener(event, func), on the list of that event.
RemoveListener(list, h) ==
    LET i == IndexOf(list, h)
    IN  IF i = 0 THEN list
        ELSE IF i = 1 /\ Len(list) = 1 THEN <<>>
        ELSE Splice1(list, i)

\* emitter.on(event, func)
On(ls, ev, h) == [ls EXCEPT ![ev] = Append(@, h)]

NeverEmitted(em, ev) == FALSE

\* emit: if(this.emitted[event]) return false
AlreadyEmitted(em, ev) == em[ev]

AfterExitFirst(own, after) == after \o own

\* emit('exit'): the 'exit' listeners run, then emit('afterExit') runs its own.
EmitOrder(own, after) == own \o after

\* The invocations of one emit's loop over this.listeners[event].
RunListeners(ev, code, signal, rets) ==
    [i \in 1..Len(listeners[ev]) |->
        [h |-> listeners[ev][i], ev |-> ev, code |-> code, signal |-> signal,
         ret |-> rets[ev][i]]]

\* emitter.emit(event, code, signal): the emitted flags, the invocations, the
\* number of listener loops run per event, and the value returned.
RECURSIVE Emit(_, _, _, _, _)
Emit(ev, em, code, signal, rets) ==
    IF AlreadyEmitted(em, ev)
    THEN [emitted |-> em, calls |-> <<>>, ran |-> {}, ret |-> FALSE]
    ELSE LET em1 == [em EXCEPT ![ev] = TRUE]
             own == RunListeners(ev, code, signal, rets)
             r1 == \E i \in 1..Len(own) : own[i].ret
         IN  IF ev = "exit"
             THEN LET a == Emit("afterExit", em1, code, signal, rets)
                  IN  [emitted |-> a.emitted,
                       calls |-> EmitOrder(own, a.calls),
                       ran |-> {ev} \cup a.ran,
                       ret |-> a.ret \/ r1]
             ELSE [emitted |-> em1, calls |-> own, ran |-> {ev}, ret |-> r1]

\* The return values the handlers may give in one emit: one per listener that
\* the emit reaches.
RetsOf(ev) ==
    [1..(IF AlreadyEmitted(emitted, ev) THEN 0 ELSE Len(listeners[ev])) -> BOOLEAN]
UsedRets == {[exit |-> e, afterExit |-> a] : e \in RetsOf("exit"), a \in RetsOf("afterExit")}

loadVars ==
    <<loaded, count, sigListeners, procListeners, procEmit, procReallyExit>>

\* load()
LoadBody ==
    IF loaded
    THEN UNCHANGED loadVars
    ELSE /\ loaded' = TRUE
         /\ count' = count + 1
         /\ sigListeners' = signals
         /\ procListeners' = signals
         /\ procEmit' = "wrapped"
         /\ procReallyExit' = "wrapped"

\* unload()
UnloadBody ==
    IF ~loaded
    THEN UNCHANGED loadVars
    ELSE /\ loaded' = FALSE
         /\ procEmit' = "original"
         /\ procReallyExit' = "original"
         /\ procListeners' = procListeners \ sigListeners
         /\ sigListeners' = {}
         /\ UNCHANGED count

NRegistered == Len(listeners["exit"]) + Len(listeners["afterExit"])

\* The last operation: its name, the signal delivered, whether it called
\* emitter.emit('exit', ...), and the signal it passed to
\* process.kill(process.pid, _) ("none" when it did not call process.kill).
OpRec(name, sig, ran, kill) ==
    [name |-> name, sig |-> sig, ran |-> ran, kill |-> kill]
NoOp == OpRec("other", "null", FALSE, "none")
\* An operation that invokes no handler.
Quiet(o) == op' = o /\ calls' = <<>> /\ UNCHANGED handled

SwappedEvent(alwaysLast) == IF alwaysLast THEN "exit" ELSE "afterExit"

\* onExit: const event = options?.alwaysLast ? 'afterExit' : 'exit'
EventOf(alwaysLast) == IF alwaysLast THEN "afterExit" ELSE "exit"

\* onExit(callback, options)
OnExit(h, alwaysLast) ==
    /\ alive
    /\ processOk
    /\ nOnExit < MaxReg
    /\ nOnExit' = nOnExit + 1
    /\ loaded \/ count < MaxLoads
    /\ LoadBody
    /\ listeners' = On(listeners, EventOf(alwaysLast), h)
    /\ issued' = issued \cup {<<alwaysLast, h>>}
    /\ registered' =
        [registered EXCEPT ![<<alwaysLast, h>>] = @ + 1]
    /\ Quiet(NoOp)
    /\ UNCHANGED <<platform, emitted, others, exitCode, alive, runs, pristine>>
    /\ UNCHANGED <<otVars, fnVars>>

\* The function onExit returns: removeListener, then unload() when both lists
\* are empty.
Unregister(h, alwaysLast) ==
    /\ alive
    /\ <<alwaysLast, h>> \in issued
    /\ listeners' =
        [listeners EXCEPT ![EventOf(alwaysLast)] = RemoveListener(@, h)]
    /\ IF Len(listeners'["exit"]) = 0 /\ Len(listeners'["afterExit"]) = 0
       THEN UnloadBody
       ELSE UNCHANGED loadVars
    /\ registered' =
        [registered EXCEPT ![<<alwaysLast, h>>] = IF @ > 0 THEN @ - 1 ELSE 0]
    /\ Quiet(NoOp)
    /\ UNCHANGED <<platform, emitted, others, exitCode, alive, issued, runs, pristine, nOnExit>>
    /\ UNCHANGED <<otVars, fnVars>>

\* load(), called through the module's export.
Load ==
    /\ alive
    /\ loaded \/ count < MaxLoads
    /\ LoadBody
    /\ pristine' = FALSE
    /\ Quiet(NoOp)
    /\ UNCHANGED <<platform, emitted, listeners, others, exitCode, alive, issued, registered, runs, nOnExit>>
    /\ UNCHANGED <<otVars, fnVars>>

\* unload(), called through the module's export.
Unload ==
    /\ alive
    /\ UnloadBody
    /\ pristine' = FALSE
    /\ Quiet(NoOp)
    /\ UNCHANGED <<platform, emitted, listeners, others, exitCode, alive, issued, registered, runs, nOnExit>>
    /\ UNCHANGED <<otVars, fnVars>>

\* The effect of one emitter.emit('exit', code, signal) on the emitter.
EmitExit(r) ==
    /\ emitted' = r.emitted
    /\ calls' = r.calls
    /\ runs' = [ev \in Events |-> runs[ev] + (IF ev \in r.ran THEN 1 ELSE 0)]
    /\ UNCHANGED <<otVars, fnVars>>

CodeAndSignal(sig) == [code |-> exitCode, signal |-> sig]

\* signal listener: emitter.emit('exit', null, sig)
SignalArgs(sig) == [code |-> Null, signal |-> sig]

\* processEmit, processReallyExit: emitter.emit('exit', process.exitCode, null)
CodeArgs(ec) == [code |-> ec, signal |-> "null"]

AlwaysResend(ret) == TRUE

\* signal listener: if(!ret) process.kill(process.pid, s)
Resend(ret) == ~ret

SameSignal(sig) == sig

\* signal listener: const s = sig === 'SIGHUP' ? hupSig : sig
KillSignal(sig) == IF sig = "SIGHUP" THEN hupSig ELSE sig

\* process.listeners(sig).length
NListeners(sig) == (IF sig \in procListeners THEN 1 ELSE 0) + others[sig]

\* A signal of the platform's list reaches the process.  With no listener the
\* default action ends the process; otherwise every listener runs, and the
\* module's own is sigListeners[sig] of createSignalListeners.
Signal(sig) ==
    /\ alive
    /\ sig \in signals
    /\ pristine' = FALSE
    /\ UNCHANGED <<platform, listeners, others, exitCode, issued, registered,
                   nOnExit>>
    /\ IF NListeners(sig) = 0
       THEN /\ alive' = FALSE
            /\ Quiet(OpRec("signal", sig, FALSE, "none"))
            /\ UNCHANGED <<loadVars, emitted, runs>>
       ELSE IF sig \in procListeners /\ NListeners(sig) = count
       THEN /\ UnloadBody
            /\ \E rets \in UsedRets :
                LET r == Emit("exit", emitted, SignalArgs(sig).code,
                              SignalArgs(sig).signal, rets)
                IN  /\ EmitExit(r)
                    /\ op' = OpRec("signal", sig, TRUE,
                                    IF Resend(r.ret) THEN KillSignal(sig)
                                    ELSE "none")
                    /\ handled' = (handled \/ r.ret)
            /\ UNCHANGED alive
       ELSE /\ Quiet(OpRec("signal", sig, FALSE, "none"))
            /\ UNCHANGED <<loadVars, emitted, runs, alive>>
    /\ UNCHANGED <<otVars, fnVars>>

\* typeof args[0] === 'number'
IsNumber(x) == x.t = "number"

\* code || 0
OrZero(code) == IF code.t = "number" /\ code.v # 0 THEN code ELSE Num(0)

RawCode(code) == code

\* processReallyExit: process.exitCode = code || 0
ReallyExitCode(code) == OrZero(code)

\* process.emit('exit', arg): processEmit when the module is loaded, Node's own
\* emit otherwise.
ProcessEmitExit(arg) ==
    /\ alive
    /\ pristine' = FALSE
    /\ UNCHANGED <<platform, loadVars, listeners, others, alive, issued,
                   registered, nOnExit>>
    /\ IF procEmit = "wrapped" /\ processOk
       THEN /\ exitCode' = IF IsNumber(arg) THEN arg ELSE exitCode
            /\ \E rets \in UsedRets :
                LET r == Emit("exit", emitted, CodeArgs(exitCode').code,
                              CodeArgs(exitCode').signal, rets)
                IN  /\ EmitExit(r)
                    /\ op' = OpRec("emit", "null", TRUE, "none")
                    /\ UNCHANGED handled
       ELSE /\ Quiet(OpRec("emit", "null", FALSE, "none"))
            /\ UNCHANGED <<exitCode, emitted, runs>>
    /\ UNCHANGED <<otVars, fnVars>>

\* process.reallyExit(code): processReallyExit when the module is loaded, and
\* then Node's own reallyExit, which ends the process.
ProcessReallyExit(code) ==
    /\ alive
    /\ alive' = FALSE
    /\ pristine' = FALSE
    /\ UNCHANGED <<platform, loadVars, listeners, others, issued,
                   registered, nOnExit>>
    /\ IF procReallyExit = "wrapped" /\ processOk
       THEN /\ exitCode' = ReallyExitCode(code)
            /\ \E rets \in UsedRets :
                LET r == Emit("exit", emitted, CodeArgs(exitCode').code,
                              CodeArgs(exitCode').signal, rets)
                IN  /\ EmitExit(r)
                    /\ op' = OpRec("reallyExit", "null", TRUE, "none")
                    /\ UNCHANGED handled
       ELSE /\ Quiet(OpRec("reallyExit", "null", FALSE, "none"))
            /\ UNCHANGED <<exitCode, emitted, runs>>
    /\ UNCHANGED <<otVars, fnVars>>

\* The program assigns process.exitCode.
SetExitCode(c) ==
    /\ alive
    /\ exitCode # c
    /\ exitCode' = c
    /\ UNCHANGED <<platform, loadVars, emitted, listeners, others, alive,
                   issued, registered, runs, pristine, nOnExit>>
    /\ Quiet(NoOp)
    /\ UNCHANGED <<otVars, fnVars>>

\* Another module attaches a listener with process.on(sig, _).
AddOther(sig) ==
    /\ alive
    /\ sig \in signals
    /\ others[sig] < MaxOther
    /\ \A s \in AllSignals \ {sig} : others[s] = 0
    /\ others' = [others EXCEPT ![sig] = @ + 1]
    /\ UNCHANGED <<platform, loadVars, emitted, listeners, exitCode, alive,
                   issued, registered, runs, pristine, nOnExit>>
    /\ Quiet(NoOp)
    /\ UNCHANGED <<otVars, fnVars>>

\* Another module detaches its listener.
RemoveOther(sig) ==
    /\ alive
    /\ others[sig] > 0
    /\ others' = [others EXCEPT ![sig] = @ - 1]
    /\ UNCHANGED <<platform, loadVars, emitted, listeners, exitCode, alive,
                   issued, registered, runs, pristine, nOnExit>>
    /\ Quiet(NoOp)
    /\ UNCHANGED <<otVars, fnVars>>

InitExit ==
    /\ platform \in Platforms
    /\ loaded = FALSE
    /\ emitted = [ev \in Events |-> FALSE]
    /\ listeners = [ev \in Events |-> <<>>]
    /\ count = 0
    /\ sigListeners = {}
    /\ procListeners = {}
    /\ others = [s \in AllSignals |-> 0]
    /\ procEmit = "original"
    /\ procReallyExit = "original"
    /\ exitCode = Undefined
    /\ alive = TRUE
    /\ calls = <<>>
    /\ issued = {}
    /\ registered = [k \in BOOLEAN \X Handlers |-> 0]
    /\ runs = [ev \in Events |-> 0]
    /\ pristine = TRUE
    /\ nOnExit = 0
    /\ handled = FALSE
    /\ op = NoOp

NextExit ==
    \/ \E h \in Handlers, al \in BOOLEAN : OnExit(h, al)
    \/ \E h \in Handlers, al \in BOOLEAN : Unregister(h, al)
    \/ Load
    \/ Unload
    \/ \E sig \in AllSignals : Signal(sig)
    \/ \E arg \in {Undefined} \cup Codes : ProcessEmitExit(arg)
    \/ \E code \in {Undefined, Null} \cup Codes : ProcessReallyExit(code)
    \/ \E c \in {Undefined} \cup Codes : SetExitCode(c)
    \/ \E sig \in AllSignals : AddOther(sig)
    \/ \E sig \in AllSignals : RemoveOther(sig)

\* ----------------------------------------------------------------- onetime
Wrappers == {"w1", "w2"}
\* A function that onetime never returned.
Plain == {"g"}
\* What the original function may return; "undefined" is also the value of the
\* unassigned let returnValue.
Values == {"undefined", "v1"}

Impls == {"onetime.ts", "part_014"}

InitOnetime ==
    /\ impl \in Impls
    /\ wrapped = {}
    /\ optThrow = [w \in Wrappers |-> FALSE]
    /\ callCount = [w \in Wrappers |-> 0]
    /\ returnValue = [w \in Wrappers |-> "undefined"]
    /\ funcFreed = [w \in Wrappers |-> FALSE]
    /\ calledFunctions = [w \in {} |-> 0]
    /\ stack = <<>>
    /\ invoked = [w \in Wrappers |-> 0]
    /\ log = [w \in Wrappers |-> <<>>]
    /\ lastCount = [f |-> "none", kind |-> "none", value |-> Undefined, called |-> 0]

\* One completed call of a wrapper: n is the value of callCount in that call,
\* kind is "return", "throw" (the original function's exception) or "once"
\* (the Error "... can only be called once").
Done(n, kind, value) == [n |-> n, kind |-> kind, value |-> value]

\* calledFunctions.set(f, n)
MapSet(map, f, n) == [g \in DOMAIN map \cup {f} |-> IF g = f THEN n ELSE map[g]]

\* onetime(func, options): a new wrapper with callCount 0, recorded in
\* calledFunctions.
Wrap(w, t) ==
    /\ w \notin wrapped
    /\ wrapped' = wrapped \cup {w}
    /\ optThrow' = [optThrow EXCEPT ![w] = t]
    /\ calledFunctions' = MapSet(calledFunctions, w, callCount[w])
    /\ UNCHANGED <<impl, callCount, returnValue, funcFreed, stack, invoked, log,
                   lastCount>>
    /\ UNCHANGED <<exitVars, fnVars>>

EveryCall(n) == TRUE

\* wrapper: if(callCount === 1)
IsFirstCall(n) == n = 1

NeverThrows(t) == FALSE

\* wrapper: else if(options.throw === true)
ThrowsOnRepeat(t) == t = TRUE

\* A call of wrapper w, from the program or from inside a running original
\* function.  The first call enters the original function; every other call
\* completes at once.
Call(w) ==
    /\ w \in wrapped
    /\ callCount[w] < MaxCalls
    /\ callCount' = [callCount EXCEPT ![w] = @ + 1]
    /\ calledFunctions' = MapSet(calledFunctions, w, callCount'[w])
    /\ IF IsFirstCall(callCount'[w])
       THEN /\ stack' = Append(stack, w)
            /\ invoked' = [invoked EXCEPT ![w] = @ + 1]
            /\ UNCHANGED log
       ELSE /\ log' =
                [log EXCEPT ![w] =
                    Append(@, IF ThrowsOnRepeat(optThrow[w])
                              THEN Done(callCount'[w], "once", "undefined")
                              ELSE Done(callCount'[w], "return", returnValue[w]))]
            /\ UNCHANGED <<stack, invoked>>
    /\ UNCHANGED <<impl, wrapped, optThrow, returnValue, funcFreed, lastCount>>
    /\ UNCHANGED <<exitVars, fnVars>>

\* The running original function returns v: returnValue = func.apply(...),
\* func = undefined, return returnValue.
FuncReturn(v) ==
    /\ stack # <<>>
    /\ LET w == stack[Len(stack)]
       IN  /\ returnValue' = [returnValue EXCEPT ![w] = v]
           /\ funcFreed' = [funcFreed EXCEPT ![w] = TRUE]
           /\ log' = [log EXCEPT ![w] = Append(@, Done(1, "return", returnValue'[w]))]
    /\ stack' = SubSeq(stack, 1, Len(stack) - 1)
    /\ UNCHANGED <<impl, wrapped, optThrow, callCount, calledFunctions, invoked,
                   lastCount>>
    /\ UNCHANGED <<exitVars, fnVars>>

\* The running original function throws: the exception leaves the wrapper
\* before returnValue and func are assigned.
FuncThrow ==
    /\ stack # <<>>
    /\ LET w == stack[Len(stack)]
       IN  log' = [log EXCEPT ![w] = Append(@, Done(1, "throw", "undefined"))]
    /\ stack' = SubSeq(stack, 1, Len(stack) - 1)
    /\ UNCHANGED <<impl, wrapped, optThrow, callCount, returnValue, funcFreed,
                   calledFunctions, invoked, lastCount>>
    /\ UNCHANGED <<exitVars, fnVars>>

\* calledFunctions.has(f)
Has(f) == f \in DOMAIN calledFunctions

\* onetime.callCount: the test that guards the throw.  onetime.ts has
\* if(!calledFunctions.has(function_)), part_014 has if(calledFunctions.has(func)).
CallCountThrows(f) ==
    IF impl = "onetime.ts" THEN ~Has(f) ELSE Has(f)

\* calledFunctions.get(f)
Get(f) == IF Has(f) THEN Num(calledFunctions[f]) ELSE Undefined

\* History: the calls of f made so far, completed or still running.
Called(f) ==
    IF f \in Wrappers
    THEN Len(log[f]) + Cardinality({i \in DOMAIN stack : stack[i] = f})
    ELSE 0

\* onetime.callCount(f); lastCount keeps its outcome and Called(f) at that
\* moment.
CallCount(f) ==
    /\ f \in wrapped \cup Plain
    /\ lastCount' =
        IF CallCountThrows(f)
        THEN [f |-> f, kind |-> "throw", value |-> Undefined, called |-> Called(f)]
        ELSE [f |-> f, kind |-> "return", value |-> Get(f), called |-> Called(f)]
    /\ UNCHANGED <<impl, wrapped, optThrow, callCount, returnValue, funcFreed,
                   calledFunctions, stack, invoked, log>>
    /\ UNCHANGED <<exitVars, fnVars>>

NextOnetime ==
    \/ \E w \in Wrappers, t \in BOOLEAN : Wrap(w, t)
    \/ \E w \in Wrappers : Call(w)
    \/ \E v \in Values : FuncReturn(v)
    \/ FuncThrow
    \/ \E f \in Wrappers \cup Plain : CallCount(f)

\* ----------------------------------------------------------------- inRange
\* JavaScript values: finite numbers Num(n), NaN and the infinities (typeof
\* "number"), BigInts, and values of other types.
Big(n) == [t |-> "bigint", v |-> n]
NaN == [t |-> "NaN", v |-> 0]
PosInfinity == [t |-> "Infinity", v |-> 0]
NegInfinity == [t |-> "-Infinity", v |-> 0]
Str == [t |-> "string", v |-> 0]

Finite == -1..MaxNum
Numeric == {Num(n) : n \in Finite} \cup {Big(n) : n \in Finite}
               \cup {NaN, PosInfinity, NegInfinity}
JsValues == Numeric \cup {Str, Null, Undefined}

\* typeof value
TypeOf(value) ==
    CASE value.t \in {"number", "NaN", "Infinity", "-Infinity"} -> "number"
      [] value.t = "bigint" -> "bigint"
      [] value.t = "null" -> "object"
      [] OTHER -> value.t

\* left < right on numbers and BigInts: false when either is NaN, else the
\* comparison of the mathematical values.
Lt(left, right) ==
    CASE left.t = "NaN" \/ right.t = "NaN" -> FALSE
      [] left.t = "-Infinity" -> right.t # "-Infinity"
      [] left.t = "Infinity" -> FALSE
      [] right.t = "Infinity" -> TRUE
      [] right.t = "-Infinity" -> FALSE
      [] OTHER -> left.v < right.v

\* left > right
Gt(left, right) == Lt(right, left)

\* left <= right: false when either is NaN, else not right < left.
Le(left, right) == left.t # "NaN" /\ right.t # "NaN" /\ ~Lt(right, left)

\* left >= right
Ge(left, right) == Le(right, left)

\* const min = (left, right) => left < right ? left : right
Min(left, right) == IF Lt(left, right) THEN left ELSE right

AlwaysLeft(left, right) == left

\* const max = (left, right) => left > right ? left : right
Max(left, right) == IF Gt(left, right) THEN left ELSE right

\* ['number', 'bigint'].includes(typeof value)
IsNumberOrBigInt(value) == TypeOf(value) \in {"number", "bigint"}

\* The destructuring default { start = 0, end }: undefined becomes 0.
DefaultStart(start) == IF start = Undefined THEN Num(0) ELSE start

\* inRange(number, { start, end })
InRange(number, start, end) ==
    LET st == DefaultStart(start)
    IN  IF ~IsNumberOrBigInt(number) \/ ~IsNumberOrBigInt(st) \/ ~IsNumberOrBigInt(end)
        THEN "TypeError"
        ELSE IF Ge(number, Min(st, end)) /\ Le(number, Max(end, st))
             THEN "true"
             ELSE "false"

InitRange ==
    /\ rNumber \in JsValues
    /\ rStart \in JsValues
    /\ rEnd \in JsValues
    /\ rResult = "none"
    /\ rSwapped = "none"

\* The call, and the call with start and end exchanged.
InRangeCall ==
    /\ rResult = "none"
    /\ rResult' = InRange(rNumber, rStart, rEnd)
    /\ rSwapped' = InRange(rNumber, rEnd, rStart)
    /\ UNCHANGED <<rNumber, rStart, rEnd>>
    /\ UNCHANGED <<exitVars, otVars, urlVars, wrapVars>>

NextRange == InRangeCall

\* --------------------------------------------------- parseUrl, parsePath
\* Strings are sequences over an alphabet with a letter, the separators of a
\* git SSH URL, whitespace and a character no file path may hold.  No string
\* over it has a special scheme, a slash or a backslash.
Alphabet == {"a", "@", ":", " ", "<"}
Strings == UNION {[1..n -> Alphabet] : n \in 0..MaxLen}
StrOf(s) == [t |-> "string", s |-> s]
NotAString == [t |-> "undefined", s |-> <<>>]
UrlInputs == {StrOf(s) : s \in Strings} \cup {NotAString}

\* parseUrl.MAX_INPUT_LENGTH = 2048
MAX_INPUT_LENGTH == 2048

\* String.prototype.trim, and the stripping of leading and trailing spaces
\* the URL constructor does first.
Trim(s) ==
    LET idx == {i \in 1..Len(s) : s[i] # " "}
    IN  IF idx = {} THEN <<>>
        ELSE SubSeq(s, CHOOSE i \in idx : \A j \in idx : i <= j,
                       CHOOSE i \in idx : \A j \in idx : j <= i)

\* new URL(s) does not throw: without a base the stripped input must begin
\* with a scheme, a letter followed by letters, and ":"; the schemes over the
\* alphabet are not special and what follows has no slash, so it is an opaque
\* path, which takes any character.
UrlAccepts(s) ==
    LET t == Trim(s)
    IN  \E k \in 2..Len(t) : t[k] = ":" /\ \A i \in 1..(k - 1) : t[i] = "a"

\* The class [^<>:"/\\|?*] of the three file path patterns.
PathChar(c) == c \notin {"<", ":"}

\* isWindowsPath: needs a backslash.
IsWindowsPath(s) == FALSE

\* isUnixPath: needs a leading slash or dot.
IsUnixPath(s) == FALSE

\* isRelativePath: /^[^<>:"/\\|?*]+(\/[^<>:"/\\|?*]+)*\/?$/
IsRelativePath(s) == Len(s) >= 1 /\ \A i \in 1..Len(s) : PathChar(s[i])

IsLikelyFilePath(s) == IsWindowsPath(s) \/ IsUnixPath(s) \/ IsRelativePath(s)

\* The fields of ParsedPath followed here.
Parsed(failed, protocol) == [parse_failed |-> failed, protocol |-> protocol]

\* parsePath(path)
ParsePath(path) ==
    IF UrlAccepts(path)
    THEN Parsed(FALSE, "scheme")
    ELSE IF IsLikelyFilePath(path)
         THEN Parsed(FALSE, "file")
         ELSE Parsed(TRUE, "file")

\* GIT_REPOSITORY: a user of 1 to 32 letters, "@", a host of letters and "@",
\* ":", and a path of letters and whitespace.
GitRepository(s) ==
    \E i, j \in 1..Len(s) :
        /\ 2 <= i /\ i <= 33 /\ s[i] = "@"
        /\ \A k \in 1..(i - 1) : s[k] = "a"
        /\ i + 1 < j /\ s[j] = ":"
        /\ \A k \in (i + 1)..(j - 1) : s[k] \in {"a", "@"}
        /\ j < Len(s)
        /\ \A k \in (j + 1)..Len(s) : s[k] \in {"a", " "}

Threw(message) == [kind |-> "throw", message |-> message, parsed |-> Parsed(FALSE, "none")]
Returned(parsed) == [kind |-> "return", message |-> "", parsed |-> parsed]
NoCall == [kind |-> "none", message |-> "", parsed |-> Parsed(FALSE, "none")]

\* parseUrl(url) with normalize omitted; on the branch that tries the git SSH
\* pattern parsed.href is the input.
ParseUrl(u, limit) ==
    IF u.t # "string" \/ Trim(u.s) = <<>>
    THEN Threw("Invalid URL.")
    ELSE IF Len(u.s) > limit
    THEN Threw("Input exceeds maximum length.")
    ELSE LET parsed == ParsePath(u.s)
         IN  IF parsed.parse_failed
             THEN IF GitRepository(u.s)
                  THEN Returned(Parsed(FALSE, "ssh"))
                  ELSE Threw("URL parsing failed.")
             ELSE Returned(parsed)

InitUrl ==
    /\ url \in UrlInputs
    /\ maxInputLength \in {MAX_INPUT_LENGTH, LoweredLimit}
    /\ urlResult = NoCall
    /\ pathResult = NoCall

ParseUrlCall ==
    /\ urlResult = NoCall
    /\ urlResult' = ParseUrl(url, maxInputLength)
    /\ UNCHANGED <<url, maxInputLength, pathResult>>
    /\ UNCHANGED <<exitVars, otVars, rangeVars, wrapVars>>

ParsePathCall ==
    /\ pathResult = NoCall
    /\ url.t = "string"
    /\ pathResult' = Returned(ParsePath(url.s))
    /\ UNCHANGED <<url, maxInputLength, urlResult>>
    /\ UNCHANGED <<exitVars, otVars, rangeVars, wrapVars>>

NextUrl ==
    \/ ParseUrlCall
    \/ ParsePathCall

\* parseUrl and parsePath before any call, with a fixed argument.
InitUrlFixed ==
    /\ url = NotAString
    /\ maxInputLength = MAX_INPUT_LENGTH
    /\ urlResult = NoCall
    /\ pathResult = NoCall

\* inRange before any call, with fixed arguments.
InitRangeFixed ==
    /\ rNumber = Num(0)
    /\ rStart = Undefined
    /\ rEnd = Num(0)
    /\ rResult = "none"
    /\ rSwapped = "none"

\* -------------------------------------------------------------------- wrap
\* Characters: a narrow letter, a space, a wide character of two columns, ESC,
\* the letter m and the line feed.  The only ANSI code ansiRegex matches over
\* them is ESC followed by m.
Esc == "e"
Wide == "W"
LineFeed == "n"
WrapChars == {"a", " ", Wide, Esc, "m", LineFeed}
Texts == UNION {[1..n -> WrapChars] : n \in 0..MaxText}
AnsiCode == <<Esc, "m">>

\* ansiRegex() matches at the head of s.
CodeAtHead(s) == Len(s) >= Len(AnsiCode) /\ SubSeq(s, 1, Len(AnsiCode)) = AnsiCode

\* s.slice(k), k counted from 0
Slice(s, k) == SubSeq(s, k + 1, Len(s))

\* stripAnsi(s): s.replace(ansiRegex(), ''), one pass from the left.
RECURSIVE StripAnsi(_)
StripAnsi(s) ==
    IF s = <<>> THEN <<>>
    ELSE IF CodeAtHead(s) THEN StripAnsi(Slice(s, Len(AnsiCode)))
    ELSE <<Head(s)>> \o StripAnsi(Tail(s))

\* stringWidth of one character: control characters count 0, a wide
\* character 2, every other character 1.
CharWidth(c) ==
    IF c \in {Esc, LineFeed} THEN 0
    ELSE IF c = Wide THEN 2
    ELSE 1

\* stringWidth(s): the widths of the characters left by stripAnsi.
RECURSIVE SumWidth(_)
SumWidth(s) == IF s = <<>> THEN 0 ELSE CharWidth(Head(s)) + SumWidth(Tail(s))
StringWidth(s) == SumWidth(StripAnsi(s))

\* /\s/.test(char)
IsWhitespace(c) == c \in {" ", LineFeed}

\* text.split('\n')
RECURSIVE SplitLines(_, _)
SplitLines(s, line) ==
    IF s = <<>> THEN <<line>>
    ELSE IF Head(s) = LineFeed THEN <<line>> \o SplitLines(Tail(s), <<>>)
    ELSE SplitLines(Tail(s), Append(line, Head(s)))

\* Math.max(width - indentWidth, 1)
EffectiveWidth(w, ind) ==
    IF w - StringWidth(ind) > 1 THEN w - StringWidth(ind) ELSE 1

\* The hard wrap loop from character i (counted from 1) with currentWidth cw:
\* splitIndex is the number of characters taken before the first that does not
\* fit.
RECURSIVE HardScan(_, _, _, _, _)
HardScan(vis, ew, i, cw, split) ==
    IF i > Len(vis) THEN split
    ELSE IF cw + CharWidth(vis[i]) > ew THEN split
    ELSE HardScan(vis, ew, i + 1, cw + CharWidth(vis[i]), i)

\* The soft wrap loop; lastWs is the position of the last whitespace seen,
\* counted from 1, 0 for none.  Gives splitIndex and currentWidth.
RECURSIVE SoftScan(_, _, _, _, _)
SoftScan(vis, ew, i, cw, lastWs) ==
    IF i > Len(vis) THEN [split |-> 0, cw |-> cw]
    ELSE IF cw + CharWidth(vis[i]) > ew
    THEN [split |-> IF lastWs # 0 THEN lastWs ELSE i - 1, cw |-> cw]
    ELSE IF i = Len(vis)
    THEN [split |-> Len(vis), cw |-> cw + CharWidth(vis[i])]
    ELSE SoftScan(vis, ew, i + 1, cw + CharWidth(vis[i]),
                  IF IsWhitespace(vis[i]) THEN i ELSE lastWs)

\* splitIndex: the hard loop, or the soft loop followed, when it leaves
\* splitIndex at 0, by the hard loop with the currentWidth it reached.
SplitIndex(vis, ew, hard) ==
    IF hard THEN HardScan(vis, ew, 1, 0, 0)
    ELSE LET r == SoftScan(vis, ew, 1, 0, 0)
         IN  IF r.split = 0 THEN HardScan(vis, ew, 1, r.cw, 0) ELSE r.split

\* The codes the exec loop takes: each match whose index is <= realSplitIndex,
\* that is the codes that follow one another from the head of the line.
RECURSIVE LeadingCodes(_)
LeadingCodes(s) ==
    IF CodeAtHead(s) THEN <<AnsiCode>> \o LeadingCodes(Slice(s, Len(AnsiCode)))
    ELSE <<>>

\* ansiCodes.join('')
RECURSIVE Join(_)
Join(codes) == IF codes = <<>> THEN <<>> ELSE Head(codes) \o Join(Tail(codes))

\* The loop that maps splitIndex to realSplitIndex.  Its branch for ESC is
\* never taken: match() with the global ansiRegExp gives an array without
\* index, so match.index === 0 is false and every character, ESC included,
\* advances both indices by one.
RealSplitIndex(line, from, split) ==
    IF from + split < Len(line) THEN from + split ELSE Len(line)

Indents == {<<>>, <<" ">>}

InitWrap ==
    /\ text \in Texts
    /\ width \in 1..MaxWidth
    /\ indent \in Indents
    /\ hardWrap \in BOOLEAN
    /\ lines = <<>>
    /\ remainingLine = <<>>
    /\ ansiCodes = <<>>
    /\ result = <<>>
    /\ wrapPc = "start"
    /\ iterations = 0

\* wrap before any call, with fixed arguments.
InitWrapFixed ==
    /\ text = <<>>
    /\ width = 1
    /\ indent = <<>>
    /\ hardWrap = FALSE
    /\ lines = <<>>
    /\ remainingLine = <<>>
    /\ ansiCodes = <<>>
    /\ result = <<>>
    /\ wrapPc = "start"
    /\ iterations = 0

\* wrap(text, { width, indent, hardWrap }) up to the for loop; trim is left at
\* its default false.
WrapStart ==
    /\ wrapPc = "start"
    /\ IF text = <<>> \/ width <= 0
       THEN wrapPc' = "done" /\ UNCHANGED lines
       ELSE wrapPc' = "line" /\ lines' = SplitLines(text, <<>>)
    /\ UNCHANGED <<text, width, indent, hardWrap, remainingLine, ansiCodes, result,
                   iterations>>
    /\ UNCHANGED <<exitVars, otVars, rangeVars, urlVars>>

\* for(const line of lines): an empty line is pushed as it is, any other line
\* enters the while loop with no ANSI code stored; after the last line wrap
\* returns.
WrapLine ==
    /\ wrapPc = "line"
    /\ IF lines = <<>>
       THEN /\ wrapPc' = "done"
            /\ UNCHANGED <<lines, remainingLine, ansiCodes, result>>
       ELSE /\ lines' = Tail(lines)
            /\ IF Head(lines) = <<>>
               THEN /\ result' = Append(result, <<>>)
                    /\ UNCHANGED <<wrapPc, remainingLine, ansiCodes>>
               ELSE /\ remainingLine' = Head(lines)
                    /\ ansiCodes' = <<>>
                    /\ wrapPc' = "loop"
                    /\ UNCHANGED result
    /\ UNCHANGED <<text, width, indent, hardWrap, iterations>>
    /\ UNCHANGED <<exitVars, otVars, rangeVars, urlVars>>

\* result.push of one iteration
Push(res, ind, resultLine) ==
    IF Len(res) > 0 \/ Len(resultLine) > 0
    THEN Append(res, IF Len(res) > 0 THEN ind \o resultLine ELSE resultLine)
    ELSE res

\* One iteration of while(remainingLine.length > 0).
WrapStep ==
    /\ wrapPc = "loop"
    /\ Len(remainingLine) > 0
    /\ iterations < MaxIter
    /\ iterations' = iterations + 1
    /\ LET visibleLine == StripAnsi(remainingLine)
           effectiveWidth == EffectiveWidth(width, indent)
       IN  IF StringWidth(visibleLine) <= effectiveWidth
           THEN /\ remainingLine' = <<>>
                /\ result' = Push(result, indent, remainingLine)
                /\ UNCHANGED ansiCodes
           ELSE LET splitIndex == SplitIndex(visibleLine, effectiveWidth, hardWrap)
                    found == LeadingCodes(remainingLine)
                    codes == ansiCodes \o found
                    realSplitIndex ==
                        RealSplitIndex(remainingLine, Len(Join(found)), splitIndex)
                    rest == Slice(remainingLine, realSplitIndex)
                IN  /\ ansiCodes' = codes
                    /\ remainingLine' =
                        IF Len(codes) > 0 /\ Len(rest) > 0
                        THEN Join(codes) \o rest
                        ELSE rest
                    /\ result' = Push(result, indent,
                                      SubSeq(remainingLine, 1, realSplitIndex))
    /\ UNCHANGED <<text, width, indent, hardWrap, lines, wrapPc>>
    /\ UNCHANGED <<exitVars, otVars, rangeVars, urlVars>>

\* The while loop ends when remainingLine is empty.
WrapLineDone ==
    /\ wrapPc = "loop"
    /\ Len(remainingLine) = 0
    /\ wrapPc' = "line"
    /\ UNCHANGED <<text, width, indent, hardWrap, lines, remainingLine, ansiCodes,
                   result, iterations>>
    /\ UNCHANGED <<exitVars, otVars, rangeVars, urlVars>>

NextWrap ==
    \/ WrapStart
    \/ WrapLine
    \/ WrapStep
    \/ WrapLineDone
\* The pure helpers before any call, with fixed arguments.
InitFn ==
    /\ InitRangeFixed
    /\ InitUrlFixed
    /\ InitWrapFixed

\* ---------------------------------------------------------- specifications
\* signals-exit alone: no onetime wrapper is made.
Init ==
    /\ InitExit
    /\ InitOnetime
    /\ impl = "onetime.ts"
    /\ InitFn

SpecExit == Init /\ [][NextExit]_vars

\* onetime alone: the exit module stays as constructed.
InitOt ==
    /\ InitExit
    /\ platform = "linux"
    /\ InitOnetime
    /\ InitFn

SpecOnetime == InitOt /\ [][NextOnetime]_vars

\* inRange alone, on every triple of arguments.
InitR ==
    /\ InitExit
    /\ platform = "linux"
    /\ InitOnetime
    /\ impl = "onetime.ts"
    /\ InitRange
    /\ InitUrlFixed
    /\ InitWrapFixed

SpecRange == InitR /\ [][NextRange]_vars

\* parseUrl and parsePath alone, on every string over the alphabet.
InitU ==
    /\ InitExit
    /\ platform = "linux"
    /\ InitOnetime
    /\ impl = "onetime.ts"
    /\ InitRangeFixed
    /\ InitUrl
    /\ InitWrapFixed

SpecUrl == InitU /\ [][NextUrl]_vars

\* wrap alone, on every text over the characters and every option.
InitW ==
    /\ InitExit
    /\ platform = "linux"
    /\ InitOnetime
    /\ impl = "onetime.ts"
    /\ InitRangeFixed
    /\ InitUrlFixed
    /\ InitWrap

SpecWrap == InitW /\ [][NextWrap]_vars

\* ------------------------------------------------------ signals-exit claims
\* Sums of the registration history.
RegNormal == registered[<<FALSE, "h1">>] + registered[<<FALSE, "h2">>]
RegLast == registered[<<TRUE, "h1">>] + registered[<<TRUE, "h2">>]

\* The invocations of callback h among positions lo..hi of a log.
Invoked(list, h, lo, hi) ==
    Cardinality({i \in lo..hi : i \in DOMAIN list /\ list[i].h = h})

\* C1: after onExit and unregister calls alone that leave a handler registered,
\* a signal of the signals list that finds the module's listener as the only
\* listener of that signal unloads the module and invokes every registered
\* handler with code null and that signal's name.
C1_SignalRunsEveryHandler ==
    [][\A sig \in AllSignals :
        (/\ op'.name = "signal"
         /\ op'.sig = sig
         /\ pristine
         /\ NRegistered > 0
         /\ sig \in procListeners
         /\ others[sig] = 0)
        => (/\ ~loaded'
            /\ procListeners' = {}
            /\ Len(calls') = NRegistered
            /\ \A i \in DOMAIN calls' :
                calls'[i].code = Null /\ calls'[i].signal = sig)]_exitVars

C3_AlwaysLastRunsLast ==
    calls # <<>> =>
        \A h \in Handlers :
            /\ Invoked(calls, h, 1, RegNormal) = registered[<<FALSE, h>>]
            /\ Invoked(calls, h, RegNormal + 1, Len(calls))
                    = registered[<<TRUE, h>>]

C3_Witness ==
    /\ Len(calls) = 2
    /\ registered[<<TRUE, "h1">>] = 1
    /\ registered[<<FALSE, "h2">>] = 1
    /\ calls[1].h = "h2"
    /\ calls[2].h = "h1"
    /\ op.name = "signal"

\* C4: while only onExit and the functions it returned have been called, the
\* module is loaded (emit and reallyExit overridden, the signal listeners
\* attached) exactly when a handler is registered; and an exit invokes a
\* callback as many times as it is registered and was not unregistered.
C4_LoadedIffRegistered ==
    /\ NRegistered = RegNormal + RegLast
    /\ pristine =>
        /\ loaded <=> NRegistered > 0
        /\ procEmit = (IF NRegistered > 0 THEN "wrapped" ELSE "original")
        /\ procReallyExit = (IF NRegistered > 0 THEN "wrapped" ELSE "original")
        /\ procListeners = (IF NRegistered > 0 THEN signals ELSE {})
    /\ calls # <<>> =>
        \A h \in Handlers :
            Invoked(calls, h, 1, Len(calls))
                = registered[<<FALSE, h>>] + registered[<<TRUE, h>>]

C4_Witness ==
    /\ pristine
    /\ nOnExit = 2
    /\ count = 1
    /\ NRegistered = 0
    /\ ~loaded
    /\ procListeners = {}

C4_WitnessExit ==
    /\ nOnExit = 2
    /\ NRegistered = 1
    /\ Len(calls) = 1

\* C5 as stated: on a signal exit process.kill(process.pid, sig) is called with
\* the signal received exactly when no invoked handler returned true.
C5_ResendsSameSignal ==
    (op.name = "signal" /\ op.ran) =>
        /\ (op.kill = op.sig) <=> (\A i \in DOMAIN calls : ~calls[i].ret)
        /\ (\E i \in DOMAIN calls : calls[i].ret) => op.kill = "none"
        /\ ~loaded
        /\ procListeners = {}

\* C5 as amended: on a signal exit process.kill is called exactly when no
\* invoked handler returned true, with the signal received, except that win32
\* re-sends SIGINT for a SIGHUP; the module is unloaded by then.
C5_Resend ==
    (op.name = "signal" /\ op.ran) =>
        /\ (\A i \in DOMAIN calls : ~calls[i].ret)
            => op.kill = (IF op.sig = "SIGHUP" /\ platform = "win32"
                          THEN "SIGINT" ELSE op.sig)
        /\ (\E i \in DOMAIN calls : calls[i].ret) => op.kill = "none"
        /\ ~loaded
        /\ procListeners = {}

C5_Witness ==
    /\ op.name = "signal"
    /\ op.ran
    /\ Len(calls) = 2
    /\ calls[1].ret
    /\ ~calls[2].ret
    /\ op.kill = "none"

C5_WitnessResend ==
    /\ op.name = "signal"
    /\ op.ran
    /\ Len(calls) = 2
    /\ op.kill = op.sig

\* C6: an invocation receives (null, the signal) on a signal exit and
\* (process.exitCode, null) on process.emit('exit') and process.reallyExit;
\* none receives a numeric code together with a signal.
C6_HandlerArguments ==
    \A i \in DOMAIN calls :
        /\ op.name = "signal"
            => calls[i].code = Null /\ calls[i].signal = op.sig
        /\ op.name \in {"emit", "reallyExit"}
            => calls[i].code = exitCode /\ calls[i].signal = "null"
        /\ op.name \in {"signal", "emit", "reallyExit"}
        /\ ~(calls[i].code.t = "number" /\ calls[i].signal # "null")

C6_Witness ==
    /\ op.name = "reallyExit"
    /\ calls # <<>>
    /\ calls[1].code = Num(1)
    /\ calls[1].signal = "null"

C6_WitnessSignal ==
    /\ op.name = "signal"
    /\ calls # <<>>
    /\ exitCode = Num(1)
    /\ calls[1].code = Null

\* C7: a handler registered after a signal was received and handled is invoked
\* by a later operation that emits 'exit'.
C7_LateHandlerRuns ==
    (handled /\ op.ran /\ NRegistered > 0) => Len(calls) = NRegistered

\* ----------------------------------------------------------- onetime claims
\* The value a call of w that completes at position j of log[w] is to give:
\* the value the first call returned if it has returned by then, undefined
\* while the first call is still running or after it threw.
FirstValue(w, j) ==
    IF \E i \in 1..(j - 1) : log[w][i].n = 1 /\ log[w][i].kind = "return"
    THEN LET i == CHOOSE k \in 1..(j - 1) : log[w][k].n = 1 /\ log[w][k].kind = "return"
         IN  log[w][i].value
    ELSE "undefined"

\* C8 as stated, for wrappers without the throw option: the original function
\* is invoked at most once, and every call of the wrapper other than the first,
\* re-entrant calls included, returns the value the first call returned.
C8_EveryLaterCallReturnsFirst ==
    \A w \in wrapped :
        /\ invoked[w] <= 1
        /\ ~optThrow[w] =>
            \A i, j \in DOMAIN log[w] :
                (log[w][i].n = 1 /\ log[w][i].kind = "return" /\ log[w][j].n > 1)
                => (log[w][j].kind = "return" /\ log[w][j].value = log[w][i].value)

\* C8, amended: the original function is invoked at most once; without the
\* throw option a call other than the first returns the value the first call
\* returned when the first call has returned by then, and undefined when the
\* first call is still running (a re-entrant call) or has thrown.
C8_ReturnsFirstOnceReturned ==
    \A w \in wrapped :
        /\ invoked[w] <= 1
        /\ ~optThrow[w] =>
            \A j \in DOMAIN log[w] :
                log[w][j].n > 1
                => (log[w][j].kind = "return" /\ log[w][j].value = FirstValue(w, j))

\* A re-entrant call gave undefined, the first call then returned v1, and a
\* later call gave v1.
C8_Witness ==
    \E w \in wrapped :
        /\ ~optThrow[w]
        /\ invoked[w] = 1
        /\ log[w] = <<Done(2, "return", "undefined"), Done(1, "return", "v1"),
                      Done(3, "return", "v1")>>

\* C9: with throw: true the first call of a wrapper invokes the original
\* function and completes with that function's outcome, and every other call
\* throws the Error "can only be called once" without invoking the original
\* function; without the option no call other than the first throws.
C9_ThrowOption ==
    \A w \in wrapped :
        /\ invoked[w] = (IF Called(w) > 0 THEN 1 ELSE 0)
        /\ \A j \in DOMAIN log[w] :
            IF log[w][j].n = 1
            THEN log[w][j].kind \in {"return", "throw"}
            ELSE log[w][j].kind = (IF optThrow[w] THEN "once" ELSE "return")

\* With throw: true the first call returned v1 and the second call threw.
C9_Witness ==
    \E w \in wrapped :
        /\ optThrow[w]
        /\ invoked[w] = 1
        /\ log[w] = <<Done(1, "return", "v1"), Done(2, "once", "undefined")>>

\* C10: onetime.callCount(f) returns the number of calls of the wrapper f made
\* so far, 0 right after wrapping, and throws if and only if f is not a
\* function wrapped by onetime.
C10_CallCount ==
    lastCount.f # "none" =>
        IF lastCount.f \in Wrappers
        THEN lastCount.kind = "return" /\ lastCount.value = Num(lastCount.called)
        ELSE lastCount.kind = "throw"

\* ----------------------------------------------------------- inRange claims
\* a <= b as mathematical values, for numbers and BigInts other than NaN.
Below(a, b) ==
    CASE a.t = "-Infinity" -> TRUE
      [] b.t = "Infinity" -> TRUE
      [] a.t = "Infinity" -> FALSE
      [] b.t = "-Infinity" -> FALSE
      [] OTHER -> a.v <= b.v

\* min(s, e) <= n <= max(s, e); no comparison with NaN is true.
Between(n, s, e) ==
    /\ NaN \notin {n, s, e}
    /\ \/ Below(s, n) /\ Below(n, e)
       \/ Below(e, n) /\ Below(n, s)

C11_WitnessDefault ==
    /\ rNumber = Num(1)
    /\ rStart = Undefined
    /\ rEnd = Big(1)
    /\ rResult = "true"

\* ----------------------------------------------- parseUrl, parsePath claims
\* C12: parseUrl throws when its input is not a string, is empty or only
\* whitespace, is longer than parseUrl.MAX_INPUT_LENGTH, or is neither accepted
\* by the URL constructor nor a git SSH URL; whenever it returns, parse_failed
\* is false; and parsePath sets parse_failed to true whenever the URL
\* constructor rejects its input.
C12_InvalidUrlThrows ==
    /\ urlResult.kind # "none" =>
        /\ (\/ url.t # "string"
            \/ Trim(url.s) = <<>>
            \/ Len(url.s) > maxInputLength
            \/ ~UrlAccepts(url.s) /\ ~GitRepository(url.s))
           => urlResult.kind = "throw"
        /\ urlResult.kind = "return" => ~urlResult.parsed.parse_failed
    /\ pathResult.kind # "none" =>
        (~UrlAccepts(url.s) => pathResult.parsed.parse_failed)

\* -------------------------------------------------------------- wrap claims
\* C13: with width >= 1, every iteration of wrap's inner while loop either
\* places all that remained or strictly reduces the visible text that remains
\* to be placed, so that wrap terminates.
C13_EachIterationReduces ==
    [][iterations' # iterations
       => \/ Len(remainingLine') = 0
          \/ Len(StripAnsi(remainingLine')) < Len(StripAnsi(remainingLine))]_vars

====
